---- MODULE Spec2Model ----
(***************************************************************************)
(* Model of diesel/src/mysql/connection/stmt/iterator.rs:                  *)
(* StatementIterator / MysqlRow (positional) and NamedStatementIterator /  *)
(* NamedMysqlRow (by name).                                                *)
(*                                                                         *)
(* One behaviour is one query: a constructor call (new), then one call of  *)
(* map, whose loop calls next and hands a row cursor to the caller's       *)
(* closure f.  The closure is caller code: between its invocation and its  *)
(* return it performs any sequence of cursor operations.  Statement and    *)
(* Binds are collaborators outside this file; their outcomes (metadata     *)
(* fails, execute fails, a row / no row / an error on populate) are        *)
(* nondeterministic inputs.                                                *)
(***************************************************************************)
EXTENDS Integers, Sequences, FiniteSets, TLC

(* ------------------------------ bounds -------------------------------- *)
\* columns of the result set: 1..MaxCols
MaxCols == 5
\* rows a statement delivers before it must report exhaustion or an error
MaxRows == 3
\* rows * columns delivered in one behaviour (keeps wide result sets short)
MaxCells == 6
\* largest argument passed to next_is_null
MaxCount == 3
\* stmt.metadata() calls in one behaviour (column_name makes one per call)
MaxMetadataCalls == 2
\* take() calls allowed beyond the last column
MaxOverrun == 1

(* ------------------------------ values -------------------------------- *)
\* A bind slot holds SQL NULL or the bytes of a value; the value of column c
\* (0-based) of the r-th fetched row is modelled as the number 10*r + c.
Null == 0
\* field_data asked for a position outside the buffer and aborting
Abort == -1
\* Option<MysqlType>: a known type hint or None
SomeType == "Some"
NoneType == "None"

CellValue(r, c) == 10 * r + c

\* the name of column c (0-based) as the server reports it
FieldName(c) == 100 + c

NoErr == [src |-> "none", at |-> 0]
MetadataError == [src |-> "metadata", at |-> 0]
ExecuteError == [src |-> "execute", at |-> 0]
\* the error of the populate call for row k / of the transform on row k
FetchError(k) == [src |-> "fetch", at |-> k]
TransformError(k) == [src |-> "transform", at |-> k]

\* QueryResult<T>
NoRet == [kind |-> "none", val |-> <<>>, err |-> NoErr]
Ok(v) == [kind |-> "ok", val |-> v, err |-> NoErr]
Err(e) == [kind |-> "err", val |-> <<>>, err |-> e]

NoMetadata == [id |-> 0, fields |-> <<>>]
NoIndices == [id |-> 0, map |-> <<>>]
NoLast == [op |-> "none", pos |-> 0, count |-> 0, flag |-> FALSE, val |-> 0]

VARIABLES
    variant,        \* "positional" (StatementIterator) or "named"
    fields,         \* the statement's result columns: their names, in order
    types,          \* the Vec<Option<MysqlType>> the caller passes to new
    pc,             \* Created, Fetching, RowReady, Exhausted, Errored, Panicked
    calls,          \* the calls new/map/next have made, with their outcomes
    metadataCalls,  \* number of stmt.metadata() calls so far
    newRet,         \* what the constructor returned
    output_binds,   \* the iterator's bind buffer: one slot per column
    metadata,       \* NamedStatementIterator.metadata
    results,        \* map's local Vec
    ret,            \* what map returned
    col_idx,        \* MysqlRow.col_idx
    column_indices, \* NamedMysqlRow.column_indices
    takeLog,        \* the take() calls on the cursor f holds: position read, value
    last,           \* the last call on the cursor f holds, and its answer
    fetched         \* the rows populate_row_buffers has delivered, in order

vars == <<variant, fields, types, pc, calls, metadataCalls, newRet,
          output_binds, metadata, results, ret, col_idx, column_indices,
          takeLog, last, fetched>>

iterVars == <<output_binds, metadata, results, ret, fetched>>
rowVars == <<col_idx, column_indices, takeLog, last>>
stmtVars == <<variant, fields>>

(* ----------------------------- helpers -------------------------------- *)
Call(op, out) == [op |-> op, out |-> out]

CallsOf(op) == {i \in DOMAIN calls : calls[i].op = op}
CallsWith(op, out) == {i \in DOMAIN calls : calls[i] = Call(op, out)}

NumCols == Len(fields)

\* the rows a server may deliver as its r-th row: any pattern of NULLs
RowsAt(r, n) ==
    {[c \in 1..n |-> IF c \in nulls THEN Null ELSE CellValue(r, c - 1)] :
        nulls \in SUBSET (1..n)}

(* ------------------------ external collaborators ---------------------- *)
\* Statement::metadata: a fresh StatementMetadata per call
StmtMetadata == [id |-> metadataCalls + 1, fields |-> fields]

\* Binds::from_output_types / Binds::from_result_metadata: one slot per
\* column, nothing fetched yet
NewBinds(n) == [c \in 1..n |-> Null]

\* Binds::field_data(idx): the slot's value, or Null.  Outside the buffer the
\* outcome is not fixed by this file: oor is Abort or Null.
field_data(binds, idx, oor) ==
    IF idx < Len(binds) THEN binds[idx + 1] ELSE oor

OutOfRangeOutcomes == {Abort, Null}

\* StatementMetadata::column_indices: name -> index, later columns winning
ColumnIndicesOf(md) ==
    [id |-> md.id,
     map |-> [n \in {md.fields[i] : i \in DOMAIN md.fields} |->
                (CHOOSE i \in DOMAIN md.fields :
                    /\ md.fields[i] = n
                    /\ \A j \in DOMAIN md.fields : md.fields[j] = n => j <= i) - 1]]

(* ------------------------------- Init --------------------------------- *)
TypeLists(n) == [1..n -> {SomeType, NoneType}]

Init ==
    /\ variant \in {"positional", "named"}
    /\ \E n \in 1..MaxCols :
        /\ fields = [c \in 1..n |-> FieldName(c - 1)]
        /\ types \in (IF variant = "positional" THEN TypeLists(n) ELSE {<<>>})
    /\ pc = "Created"
    /\ calls = <<>>
    /\ metadataCalls = 0
    /\ newRet = NoRet
    /\ output_binds = <<>>
    /\ metadata = NoMetadata
    /\ results = <<>>
    /\ ret = NoRet
    /\ col_idx = 0
    /\ column_indices = NoIndices
    /\ takeLog = <<>>
    /\ last = NoLast
    /\ fetched = <<>>

(* ------------------------- StatementIterator -------------------------- *)
\* a plausible slip: all instead of any
AllNone(ts) == \A i \in DOMAIN ts : ts[i] = NoneType

\* types.iter().any(Option::is_none)
AnyNone(ts) == \E i \in DOMAIN ts : ts[i] = NoneType

\* a plausible slip: the error of execute_statement is dropped (no ?)
StatementIterator_new_unchecked(ts, mdOk, exOk) ==
    LET md == IF AnyNone(ts)
              THEN <<Call("metadata", IF mdOk THEN "ok" ELSE "err")>>
              ELSE <<>>
    IN  IF AnyNone(ts) /\ ~mdOk
        THEN [calls |-> md, ret |-> Err(MetadataError)]
        ELSE [calls |-> md \o <<Call("execute", IF exOk THEN "ok" ELSE "err")>>,
              ret |-> Ok(<<>>)]

\* StatementIterator::new: the calls it makes on the statement, in order,
\* and what it returns, given whether metadata() and execute_statement()
\* succeed
StatementIterator_new_result(ts, mdOk, exOk) ==
    LET md == IF AnyNone(ts)
              THEN <<Call("metadata", IF mdOk THEN "ok" ELSE "err")>>
              ELSE <<>>
    IN  IF AnyNone(ts) /\ ~mdOk
        THEN [calls |-> md, ret |-> Err(MetadataError)]
        ELSE IF ~exOk
        THEN [calls |-> md \o <<Call("execute", "err")>>, ret |-> Err(ExecuteError)]
        ELSE [calls |-> md \o <<Call("execute", "ok")>>, ret |-> Ok(<<>>)]

\* StatementIterator::new.  The hint list is moved into the bind buffer, so
\* it is gone when new returns.
StatementIterator_new ==
    /\ pc = "Created"
    /\ variant = "positional"
    /\ \E mdOk \in BOOLEAN, exOk \in BOOLEAN :
        LET r == StatementIterator_new_result(types, mdOk, exOk)
        IN  /\ calls' = calls \o r.calls
            /\ metadataCalls' = metadataCalls +
                    Cardinality({i \in DOMAIN r.calls : r.calls[i].op = "metadata"})
            /\ newRet' = r.ret
            /\ IF r.ret.kind = "ok"
               THEN /\ pc' = "Fetching"
                    /\ output_binds' = NewBinds(Len(types))
               ELSE /\ pc' = "Errored"
                    /\ output_binds' = output_binds
    /\ types' = <<>>
    /\ UNCHANGED <<stmtVars, metadata, results, ret, fetched, rowVars>>

\* the caller's closure f is FnMut: it may count its own invocations.  Its
\* Ok result on the k-th invocation is determined by k and by the row it was
\* handed, i.e. by the bind buffer it reads through the cursor.
NumTransformCalls == Cardinality(CallsWith("f", "call"))
f_result(k, binds) == [call |-> k, data |-> binds]

\* whether the modelled server may still deliver a row
MayDeliverRow ==
    /\ Len(fetched) < MaxRows
    /\ (Len(fetched) + 1) * NumCols <= MaxCells

\* a plausible slip: the new result is put in front
push_front(vec, t) == <<t>> \o vec

\* results.push(..) of map
push(vec, t) == Append(vec, t)

\* a plausible slip: a failed fetch ends the loop like exhaustion does
\* (while let Some(Ok(row)) = ..), handing back what was collected
map_fetch_err_partial(vec, e) == Ok(vec)

\* map, row?: a fetch error is returned from map, the Vec is dropped
map_fetch_err(vec, e) == Err(e)

\* a plausible slip: a failed transform ends the loop with what was collected
map_transform_err_partial(vec, e) == Ok(vec)

\* map, f(..)?: a transform error is returned from map, the Vec is dropped
map_transform_err(vec, e) == Err(e)

\* a plausible slip in a language without borrow checking: the next row is
\* fetched while f still holds the cursor of the current one
loop_head_while_borrowed == pc \in {"Fetching", "RowReady"}

\* map, `while let Some(row) = self.next()`: next is called at the loop
\* head only, i.e. at the start of map and after f has returned and its
\* result was pushed; the cursor handed to f was moved into f and is gone
loop_head == pc = "Fetching"

\* a plausible slip: the scan position of the previous cursor is carried over
stale_col_idx == col_idx

\* MysqlRow { col_idx: 0, .. } in next
fresh_col_idx == 0

\* StatementIterator::next as called by the loop of map, up to the point
\* where f is entered (row), map returns Ok (no more rows) or map returns
\* the fetch error (row?).
StatementIterator_next ==
    /\ loop_head
    /\ variant = "positional"
    /\ \/ /\ MayDeliverRow
          /\ \E row \in RowsAt(Len(fetched) + 1, NumCols) :
                /\ output_binds' = row
                /\ fetched' = Append(fetched, row)
          /\ calls' = calls \o <<Call("populate", "row"), Call("f", "call")>>
          /\ col_idx' = fresh_col_idx
          /\ takeLog' = <<>>
          /\ last' = NoLast
          /\ pc' = "RowReady"
          /\ UNCHANGED <<ret, column_indices>>
       \/ /\ calls' = Append(calls, Call("populate", "none"))
          /\ ret' = Ok(results)
          /\ pc' = "Exhausted"
          /\ UNCHANGED <<output_binds, fetched, rowVars>>
       \/ /\ calls' = Append(calls, Call("populate", "err"))
          /\ ret' = map_fetch_err(results, FetchError(Len(fetched) + 1))
          /\ pc' = "Errored"
          /\ UNCHANGED <<output_binds, fetched, rowVars>>
    /\ UNCHANGED <<stmtVars, types, metadataCalls, newRet, metadata, results>>

\* map, line 36: f returned Ok(t); t is pushed and the loop goes on
StatementIterator_map_push ==
    /\ pc = "RowReady"
    /\ variant = "positional"
    /\ results' = push(results, f_result(NumTransformCalls, output_binds))
    /\ calls' = Append(calls, Call("f", "ok"))
    /\ pc' = "Fetching"
    /\ takeLog' = <<>>
    /\ last' = NoLast
    /\ UNCHANGED <<stmtVars, types, metadataCalls, newRet, output_binds,
                   metadata, ret, fetched, col_idx, column_indices>>

\* a plausible slip: a failed transform is skipped and the loop goes on
\* (if let Ok(t) = f(row?) { results.push(t) })
StatementIterator_map_err_skipped ==
    /\ pc = "RowReady"
    /\ variant = "positional"
    /\ calls' = Append(calls, Call("f", "err"))
    /\ pc' = "Fetching"
    /\ takeLog' = <<>>
    /\ last' = NoLast
    /\ UNCHANGED <<stmtVars, types, metadataCalls, newRet, output_binds,
                   metadata, results, ret, fetched, col_idx, column_indices>>

\* map, line 36: f returned Err(e); the second ? returns it from map
StatementIterator_map_err ==
    /\ pc = "RowReady"
    /\ variant = "positional"
    /\ ret' = map_transform_err(results, TransformError(NumTransformCalls))
    /\ calls' = Append(calls, Call("f", "err"))
    /\ pc' = "Errored"
    /\ takeLog' = <<>>
    /\ last' = NoLast
    /\ UNCHANGED <<stmtVars, types, metadataCalls, newRet, output_binds,
                   metadata, results, fetched, col_idx, column_indices>>

(* ------------------------------ MysqlRow ------------------------------ *)
\* a plausible slip: the buffer is read after the position was advanced
take_result_after(idx, binds, oor) ==
    [col_idx |-> idx + 1, read |-> idx + 1, val |-> field_data(binds, idx + 1, oor)]

\* MysqlRow::take: the new col_idx, the position read and the value returned
take_result(idx, binds, oor) ==
    LET current_idx == idx
    IN  [col_idx |-> idx + 1, read |-> current_idx,
         val |-> field_data(binds, current_idx, oor)]

\* MysqlRow::take as one call made by f
take ==
    /\ pc = "RowReady"
    /\ variant = "positional"
    /\ col_idx < Len(output_binds) + MaxOverrun
    /\ \E oor \in OutOfRangeOutcomes :
        LET t == take_result(col_idx, output_binds, oor)
        IN  /\ col_idx' = t.col_idx
            /\ IF t.val = Abort
               THEN /\ pc' = "Panicked"
                    /\ UNCHANGED <<takeLog, last>>
               ELSE /\ pc' = pc
                    /\ takeLog' = Append(takeLog, [pos |-> t.read, val |-> t.val])
                    /\ last' = [op |-> "take", pos |-> t.read, count |-> 0,
                                flag |-> FALSE, val |-> t.val]
    /\ UNCHANGED <<stmtVars, types, calls, metadataCalls, newRet, iterVars,
                   column_indices>>

\* (0..count).all(|i| binds.field_data(col_idx + i).is_none()), from i on:
\* "true", "false", or "abort" when field_data aborts before a verdict
RECURSIVE all_none(_, _, _, _, _)
all_none(binds, idx, i, count, oor) ==
    IF i >= count THEN "true"
    ELSE LET v == field_data(binds, idx + i, oor)
         IN  IF v = Abort THEN "abort"
             ELSE IF v = Null THEN all_none(binds, idx, i + 1, count, oor)
             ELSE "false"

\* a plausible slip: the scan starts one column too far
next_is_null_result_off(binds, idx, count, oor) == all_none(binds, idx + 1, 0, count, oor)

\* MysqlRow::next_is_null: its answer at scan position idx
next_is_null_result(binds, idx, count, oor) == all_none(binds, idx, 0, count, oor)

\* a plausible slip: a run of NULLs that was found is consumed on the spot
next_is_null_consuming ==
    /\ pc = "RowReady"
    /\ variant = "positional"
    /\ \E count \in 0..MaxCount, oor \in OutOfRangeOutcomes :
        LET r == next_is_null_result(output_binds, col_idx, count, oor)
        IN  /\ pc' = IF r = "abort" THEN "Panicked" ELSE pc
            /\ col_idx' = IF r = "true" THEN col_idx + count ELSE col_idx
            /\ last' = IF r = "abort" THEN last
                       ELSE [op |-> "next_is_null", pos |-> col_idx,
                             count |-> count, flag |-> (r = "true"), val |-> 0]
    /\ UNCHANGED <<stmtVars, types, calls, metadataCalls, newRet, iterVars,
                   column_indices, takeLog>>

\* MysqlRow::next_is_null as one call made by f
next_is_null ==
    /\ pc = "RowReady"
    /\ variant = "positional"
    /\ \E count \in 0..MaxCount, oor \in OutOfRangeOutcomes :
        LET r == next_is_null_result(output_binds, col_idx, count, oor)
        IN  IF r = "abort"
            THEN /\ pc' = "Panicked"
                 /\ last' = last
            ELSE /\ pc' = pc
                 /\ last' = [op |-> "next_is_null", pos |-> col_idx,
                             count |-> count, flag |-> (r = "true"), val |-> 0]
    /\ UNCHANGED <<stmtVars, types, calls, metadataCalls, newRet, iterVars,
                   col_idx, column_indices, takeLog>>

\* MysqlRow::column_count
column_count ==
    /\ pc = "RowReady"
    /\ variant = "positional"
    /\ last' = [op |-> "column_count", pos |-> col_idx, count |-> 0,
                flag |-> FALSE, val |-> Len(output_binds)]
    /\ UNCHANGED <<stmtVars, types, pc, calls, metadataCalls, newRet, iterVars,
                   col_idx, column_indices, takeLog>>

\* a plausible slip: the name of the column about to be taken
column_name_idx_current(idx) == idx

\* the index into metadata.fields() that column_name reads
column_name_idx(idx) == IF idx = 0 THEN 0 ELSE idx - 1

\* MysqlRow::column_name.  It asks the statement for its metadata on every
\* call; a failed metadata call, a name that is not UTF-8 (nameOk false) and
\* an index outside fields() all abort.
column_name ==
    /\ pc = "RowReady"
    /\ variant = "positional"
    /\ metadataCalls < MaxMetadataCalls
    /\ metadataCalls' = metadataCalls + 1
    /\ \E mdOk \in BOOLEAN, nameOk \in BOOLEAN :
        LET md == StmtMetadata
            i == column_name_idx(col_idx)
        IN  IF ~mdOk \/ i >= Len(md.fields) \/ ~nameOk
            THEN /\ pc' = "Panicked"
                 /\ last' = last
            ELSE /\ pc' = pc
                 /\ last' = [op |-> "column_name", pos |-> col_idx, count |-> 0,
                             flag |-> FALSE, val |-> md.fields[i + 1]]
    /\ UNCHANGED <<stmtVars, types, calls, newRet, iterVars, col_idx,
                   column_indices, takeLog>>

(* ----------------------- NamedStatementIterator ----------------------- *)
\* a plausible slip: the statement is executed before its metadata is read
NamedStatementIterator_new_swapped(mdOk, exOk) ==
    IF ~exOk
    THEN [calls |-> <<Call("execute", "err")>>, ret |-> Err(ExecuteError)]
    ELSE IF ~mdOk
    THEN [calls |-> <<Call("execute", "ok"), Call("metadata", "err")>>,
          ret |-> Err(MetadataError)]
    ELSE [calls |-> <<Call("execute", "ok"), Call("metadata", "ok")>>, ret |-> Ok(<<>>)]

\* NamedStatementIterator::new: the calls it makes on the statement, in
\* order, and what it returns
NamedStatementIterator_new_result(mdOk, exOk) ==
    IF ~mdOk
    THEN [calls |-> <<Call("metadata", "err")>>, ret |-> Err(MetadataError)]
    ELSE IF ~exOk
    THEN [calls |-> <<Call("metadata", "ok"), Call("execute", "err")>>,
          ret |-> Err(ExecuteError)]
    ELSE [calls |-> <<Call("metadata", "ok"), Call("execute", "ok")>>, ret |-> Ok(<<>>)]

\* NamedStatementIterator::new
NamedStatementIterator_new ==
    /\ pc = "Created"
    /\ variant = "named"
    /\ \E mdOk \in BOOLEAN, exOk \in BOOLEAN :
        LET r == NamedStatementIterator_new_result(mdOk, exOk)
            md == StmtMetadata
        IN  /\ calls' = calls \o r.calls
            /\ metadataCalls' = metadataCalls +
                    Cardinality({i \in DOMAIN r.calls : r.calls[i].op = "metadata"})
            /\ newRet' = r.ret
            /\ IF r.ret.kind = "ok"
               THEN /\ pc' = "Fetching"
                    /\ output_binds' = NewBinds(Len(md.fields))
                    /\ metadata' = md
               ELSE /\ pc' = "Errored"
                    /\ UNCHANGED <<output_binds, metadata>>
    /\ UNCHANGED <<stmtVars, types, results, ret, fetched, rowVars>>

\* NamedStatementIterator::next as called by the loop of map
NamedStatementIterator_next ==
    /\ loop_head
    /\ variant = "named"
    /\ \/ /\ MayDeliverRow
          /\ \E row \in RowsAt(Len(fetched) + 1, NumCols) :
                /\ output_binds' = row
                /\ fetched' = Append(fetched, row)
          /\ calls' = calls \o <<Call("populate", "row"), Call("f", "call")>>
          /\ column_indices' = ColumnIndicesOf(metadata)
          /\ pc' = "RowReady"
          /\ last' = NoLast
          /\ UNCHANGED <<ret, col_idx, takeLog>>
       \/ /\ calls' = Append(calls, Call("populate", "none"))
          /\ ret' = Ok(results)
          /\ pc' = "Exhausted"
          /\ UNCHANGED <<output_binds, fetched, rowVars>>
       \/ /\ calls' = Append(calls, Call("populate", "err"))
          /\ ret' = map_fetch_err(results, FetchError(Len(fetched) + 1))
          /\ pc' = "Errored"
          /\ UNCHANGED <<output_binds, fetched, rowVars>>
    /\ UNCHANGED <<stmtVars, types, metadataCalls, newRet, metadata, results>>

\* map, line 123: f returned Ok(t)
NamedStatementIterator_map_push ==
    /\ pc = "RowReady"
    /\ variant = "named"
    /\ results' = push(results, f_result(NumTransformCalls, output_binds))
    /\ calls' = Append(calls, Call("f", "ok"))
    /\ pc' = "Fetching"
    /\ takeLog' = <<>>
    /\ last' = NoLast
    /\ UNCHANGED <<stmtVars, types, metadataCalls, newRet, output_binds,
                   metadata, ret, fetched, col_idx, column_indices>>

\* a plausible slip in the named copy of the loop: a failed transform is
\* skipped and the loop goes on
NamedStatementIterator_map_err_skipped ==
    /\ pc = "RowReady"
    /\ variant = "named"
    /\ calls' = Append(calls, Call("f", "err"))
    /\ pc' = "Fetching"
    /\ takeLog' = <<>>
    /\ last' = NoLast
    /\ UNCHANGED <<stmtVars, types, metadataCalls, newRet, output_binds,
                   metadata, results, ret, fetched, col_idx, column_indices>>

\* map, line 123: f returned Err(e)
NamedStatementIterator_map_err ==
    /\ pc = "RowReady"
    /\ variant = "named"
    /\ ret' = map_transform_err(results, TransformError(NumTransformCalls))
    /\ calls' = Append(calls, Call("f", "err"))
    /\ pc' = "Errored"
    /\ takeLog' = <<>>
    /\ last' = NoLast
    /\ UNCHANGED <<stmtVars, types, metadataCalls, newRet, output_binds,
                   metadata, results, fetched, col_idx, column_indices>>

(* ---------------------------- NamedMysqlRow --------------------------- *)
\* the names f may ask for: every column's name and one that no column has
LookupNames == {FieldName(c) : c \in 0..NumCols}

\* a plausible slip: an unknown name falls back to the first column
index_of_result_default(ci, name) ==
    IF name \in DOMAIN ci.map
    THEN [found |-> TRUE, idx |-> ci.map[name]]
    ELSE [found |-> TRUE, idx |-> 0]

\* NamedMysqlRow::index_of: column_indices.get(column_name).cloned()
index_of_result(ci, name) ==
    IF name \in DOMAIN ci.map
    THEN [found |-> TRUE, idx |-> ci.map[name]]
    ELSE [found |-> FALSE, idx |-> 0]

\* NamedMysqlRow::index_of as one call made by f; last.count is the name
index_of ==
    /\ pc = "RowReady"
    /\ variant = "named"
    /\ \E name \in LookupNames :
        LET r == index_of_result(column_indices, name)
        IN  last' = [op |-> "index_of", pos |-> 0, count |-> name,
                     flag |-> r.found, val |-> r.idx]
    /\ UNCHANGED <<stmtVars, types, pc, calls, metadataCalls, newRet, iterVars,
                   col_idx, column_indices, takeLog>>

\* a plausible slip: the index is taken as 1-based
get_raw_value_result_one_based(binds, idx, oor) == field_data(binds, idx + 1, oor)

\* a plausible slip: an index past the end is clamped to the last column
get_raw_value_result_clamped(binds, idx, oor) ==
    field_data(binds, IF idx < Len(binds) THEN idx ELSE Len(binds) - 1, oor)

\* NamedMysqlRow::get_raw_value: self.binds.field_data(idx)
get_raw_value_result(binds, idx, oor) == field_data(binds, idx, oor)

\* NamedMysqlRow::get_raw_value as one call made by f; last.count is the
\* index asked for, last.val the answer (Abort when the call did not return)
get_raw_value ==
    /\ pc = "RowReady"
    /\ variant = "named"
    /\ \E idx \in 0..(Len(output_binds) - 1 + MaxOverrun), oor \in OutOfRangeOutcomes :
        LET v == get_raw_value_result(output_binds, idx, oor)
        IN  /\ pc' = IF v = Abort THEN "Panicked" ELSE pc
            /\ last' = [op |-> "get_raw_value", pos |-> 0, count |-> idx,
                        flag |-> FALSE, val |-> v]
    /\ UNCHANGED <<stmtVars, types, calls, metadataCalls, newRet, iterVars,
                   col_idx, column_indices, takeLog>>

(* ------------------------------- Next --------------------------------- *)
Next ==
    \/ StatementIterator_new
    \/ StatementIterator_next
    \/ StatementIterator_map_push
    \/ StatementIterator_map_err
    \/ take
    \/ next_is_null
    \/ column_count
    \/ column_name
    \/ NamedStatementIterator_new
    \/ NamedStatementIterator_next
    \/ NamedStatementIterator_map_push
    \/ NamedStatementIterator_map_err
    \/ index_of
    \/ get_raw_value

Spec == Init /\ [][Next]_vars

\* the loop of map goes on: with the statement ready, next is called
MapLoopStep == StatementIterator_next \/ NamedStatementIterator_next

\* the call of f that is in progress returns, with Ok or with Err
TransformReturns ==
    \/ StatementIterator_map_push
    \/ StatementIterator_map_err
    \/ NamedStatementIterator_map_push
    \/ NamedStatementIterator_map_err

\* Spec for a program that keeps running and a closure f that returns,
\* unless one of its cursor calls aborts.  The server delivers finitely
\* many rows (MayDeliverRow).
LiveSpec == Spec /\ WF_vars(MapLoopStep) /\ WF_vars(TransformReturns)

(* ------------------------------ claims -------------------------------- *)
Range(seq) == {seq[i] : i \in DOMAIN seq}
OpsIn(log) == [i \in DOMAIN log |-> log[i].op]
NumPopulateCalls == Cardinality(CallsOf("populate"))
LastCall == calls[Len(calls)]

\* C1: in either variant, when populate_row_buffers has reported the end of
\* the rows and no fetch and no transform failed, map returns Ok with exactly
\* one element per fetched row, the i-th being the transform's result on the
\* i-th fetched row.
C1_MapCollectsInFetchOrder ==
    (/\ Call("populate", "none") \in Range(calls)
     /\ Call("populate", "err") \notin Range(calls)
     /\ Call("f", "err") \notin Range(calls))
    => /\ ret.kind = "ok"
       /\ Len(ret.val) = Len(fetched)
       /\ \A i \in 1..Len(fetched) : ret.val[i] = [call |-> i, data |-> fetched[i]]

C1_Witness ==
    /\ variant = "positional"
    /\ ret.kind = "ok"
    /\ Len(fetched) = 3
    /\ Len(ret.val) = 3

\* C2: if the populate_row_buffers call for row k fails, map returns exactly
\* that error, with none of the results of rows 1..k-1, and the transform was
\* invoked exactly k-1 times: never on row k, never afterwards.
C2_FetchErrorIsReturnedAlone ==
    Call("populate", "err") \in Range(calls)
    => LET k == NumPopulateCalls
       IN  /\ ret = [kind |-> "err", val |-> <<>>, err |-> FetchError(k)]
           /\ NumTransformCalls = k - 1
           /\ Len(fetched) = k - 1
           /\ LastCall = Call("populate", "err")

C2_Witness ==
    /\ Call("populate", "err") \in Range(calls)
    /\ NumPopulateCalls = 2
    /\ Len(results) = 1
    /\ ret.kind = "err"

\* C3: if the transform fails on row k, map returns that error (no error
\* came before it), the results of rows 1..k-1 are dropped and the transform
\* is not invoked again.
C3_TransformErrorIsReturnedAlone ==
    Call("f", "err") \in Range(calls)
    => LET k == Len(fetched)
       IN  /\ ret = [kind |-> "err", val |-> <<>>, err |-> TransformError(k)]
           /\ NumTransformCalls = k
           /\ Cardinality(CallsWith("f", "ok")) = k - 1
           /\ Call("populate", "err") \notin Range(calls)
           /\ LastCall = Call("f", "err")

C3_Witness ==
    /\ Call("f", "err") \in Range(calls)
    /\ Len(fetched) = 3
    /\ Len(results) = 2
    /\ ret.kind = "err"

\* C4: once populate_row_buffers has reported no more rows or an error, or
\* the transform has failed, populate_row_buffers is not called again.
C4_StoppedIsAbsorbing ==
    \A i \in DOMAIN calls : \A j \in DOMAIN calls :
        (/\ i < j
         /\ calls[i] \in {Call("populate", "none"), Call("populate", "err"),
                          Call("f", "err")})
        => calls[j].op # "populate"

C4_Witness ==
    /\ pc = "Exhausted"
    /\ LastCall = Call("populate", "none")
    /\ Len(fetched) = 2

\* C5: StatementIterator::new calls stmt.metadata() exactly when some type
\* hint is None: then once, as its first call, before execute_statement;
\* with every hint known it calls execute_statement alone.
C5_MetadataIffUnknownHint ==
    [][(pc = "Created" /\ variant = "positional")
        => IF NoneType \in Range(types)
           THEN /\ OpsIn(calls') \in {<<"metadata">>, <<"metadata", "execute">>}
                /\ metadataCalls' = 1
           ELSE /\ OpsIn(calls') = <<"execute">>
                /\ metadataCalls' = 0]_vars

C5_Witness ==
    /\ variant = "positional"
    /\ pc = "Fetching"
    /\ calls = <<Call("metadata", "ok"), Call("execute", "ok")>>
    /\ metadataCalls = 1

\* C6: construction fails closed in both variants: a failed metadata fetch
\* is returned and execute_statement is never called; a failed
\* execute_statement is returned; after either no iterator exists, nothing
\* is fetched and no transform runs.
C6_ConstructionFailsClosed ==
    /\ Call("metadata", "err") \in Range(calls)
        => /\ newRet = [kind |-> "err", val |-> <<>>, err |-> MetadataError]
           /\ CallsOf("execute") = {}
    /\ Call("execute", "err") \in Range(calls)
        => newRet = [kind |-> "err", val |-> <<>>, err |-> ExecuteError]
    /\ newRet.kind = "err"
        => /\ pc = "Errored"
           /\ CallsOf("populate") = {}
           /\ CallsOf("f") = {}
           /\ output_binds = <<>>
           /\ ret.kind = "none"

C6_Witness ==
    /\ variant = "named"
    /\ calls = <<Call("metadata", "ok"), Call("execute", "err")>>
    /\ pc = "Errored"

\* C7: NamedStatementIterator::new fetches the metadata first, then executes;
\* that metadata stays the iterator's for good: map fetches no other, and
\* the cursor of every row carries the name-to-index map of that metadata.
C7_NamedMetadataFetchedOnceAndRetained ==
    (variant = "named" /\ pc # "Created")
    => /\ calls[1].op = "metadata"
       /\ CallsOf("metadata") = {1}
       /\ CallsOf("execute") \subseteq {2}
       /\ metadataCalls = 1
       /\ newRet.kind = "ok" => (metadata.id = 1 /\ metadata.fields = fields)
       /\ pc = "RowReady"
            => /\ column_indices.id = metadata.id
               /\ DOMAIN column_indices.map = Range(fields)
               /\ \A c \in DOMAIN fields : column_indices.map[fields[c]] = c - 1

C7_Witness ==
    /\ variant = "named"
    /\ pc = "RowReady"
    /\ Len(fetched) = 2
    /\ column_indices.id = 1

\* C8: on a MysqlRow over N columns the k-th take() (k <= N) reads the bind
\* buffer at position k-1 and returns its value or null, and col_idx is the
\* number of take() calls made: it goes up by one per take() and never down.
C8_TakeReadsInOrder ==
    (variant = "positional" /\ pc = "RowReady")
    => /\ col_idx = Len(takeLog)
       /\ \A k \in DOMAIN takeLog :
            k <= NumCols => takeLog[k] = [pos |-> k - 1, val |-> output_binds[k]]

C8_Witness ==
    /\ variant = "positional"
    /\ pc = "RowReady"
    /\ NumCols = 3
    /\ Len(takeLog) = NumCols
    /\ col_idx = NumCols

\* the 0-based positions of the NULL columns of a row
NullCols(binds) == {c \in 0..(Len(binds) - 1) : binds[c + 1] = Null}

\* C9: next_is_null(count) at scan position p answers true exactly when the
\* columns p .. p+count-1 of the current row are all NULL; next_is_null(0) is
\* true at every position; with NULLs in columns 2,3,4 only, next_is_null(3)
\* is true at position 2 and false at position 1.
C9_NextIsNullLooksAhead ==
    (variant = "positional" /\ pc = "RowReady" /\ last.op = "next_is_null")
    => /\ last.pos = col_idx
       /\ last.pos + last.count <= NumCols
            => (last.flag <=>
                    \A c \in last.pos..(last.pos + last.count - 1) :
                        output_binds[c + 1] = Null)
       /\ (\E c \in last.pos..(last.pos + last.count - 1) :
                c < NumCols /\ output_binds[c + 1] # Null)
            => ~last.flag
       /\ last.count = 0 => last.flag
       /\ (NullCols(output_binds) = {2, 3, 4} /\ last.count = 3)
            => /\ last.pos = 2 => last.flag
               /\ last.pos = 1 => ~last.flag

C9_Witness ==
    /\ pc = "RowReady"
    /\ last.op = "next_is_null"
    /\ NullCols(output_binds) = {2, 3, 4}
    /\ NumCols = 5
    /\ last.count = 3
    /\ last.pos = 2
    /\ last.flag

\* C10: column_name() returns the name of column 0 before any take() and the
\* name of column k-1 after k >= 1 take() calls: the first column's name
\* after none and after one, the second's after two.
C10_ColumnNameOfLastTaken ==
    (variant = "positional" /\ pc = "RowReady" /\ last.op = "column_name")
    => LET k == Len(takeLog)
       IN  /\ k = 0 => last.val = fields[1]
           /\ k >= 1 => last.val = fields[k]
           /\ k = 1 => last.val = fields[1]
           /\ k = 2 => last.val = fields[2]

C10_Witness ==
    /\ pc = "RowReady"
    /\ last.op = "column_name"
    /\ Len(takeLog) = 2
    /\ last.val = fields[2]
    /\ fields[2] # fields[1]

\* the row the cursor f holds was built over, as the statement delivered it
CurrentRow == fetched[Len(fetched)]

\* C11: on a named row, get_raw_value(index_of(name)) is the value-or-null a
\* positional read of that index gives in the same row, i.e. the delivered
\* value of the column called name; asking the same thing again gives the
\* same answer, and the lookups change nothing but the answer handed back.
C11_NamedLookupReadsTheColumn ==
    [][(variant = "named" /\ pc = "RowReady" /\ pc' = "RowReady")
        => /\ UNCHANGED <<stmtVars, types, calls, metadataCalls, newRet, iterVars,
                          col_idx, column_indices, takeLog>>
           /\ (last'.op = "index_of" /\ last'.flag)
                => fields[last'.val + 1] = last'.count
           /\ (last'.op = "get_raw_value" /\ last'.count < NumCols)
                => last'.val = take_result(last'.count, output_binds, Null).val
           /\ (/\ last.op = "index_of" /\ last.flag
               /\ last'.op = "get_raw_value" /\ last'.count = last.val)
                => \E c \in DOMAIN fields :
                        fields[c] = last.count /\ last'.val = CurrentRow[c]
           /\ (last'.op = last.op /\ last'.count = last.count)
                => last' = last]_vars

C11_Witness ==
    /\ variant = "named"
    /\ pc = "RowReady"
    /\ Len(fetched) = 2
    /\ last.op = "get_raw_value"
    /\ last.count = 1
    /\ last.val = CellValue(2, 1)

\* C12: index_of(name) answers "not found" for a name no column has and the
\* column's index for a name some column has, on every row alike: the answer
\* is fixed by the column list of the retained metadata.
C12_IndexOfDependsOnMetadataOnly ==
    (variant = "named" /\ last.op = "index_of")
    => /\ last.count \notin Range(fields) => ~last.flag
       /\ last.count \in Range(fields)
            => /\ last.flag
               /\ last.val \in 0..(NumCols - 1)
               /\ fields[last.val + 1] = last.count

C12_Witness ==
    /\ variant = "named"
    /\ pc = "RowReady"
    /\ Len(fetched) = 2
    /\ last.op = "index_of"
    /\ last.count \notin Range(fields)
    /\ ~last.flag

\* C13 as stated: get_raw_value(index) with index >= the column count
\* returns "not found" as a value and never aborts.
C13_OutOfRangeIsNotFound ==
    (variant = "named" /\ last.op = "get_raw_value" /\ last.count >= NumCols)
    => /\ pc # "Panicked"
       /\ last.val = Null

\* C13 amended: get_raw_value makes no range check of its own; for an index
\* >= the column count it hands the index to Binds::field_data and its
\* outcome is that call's: none (the value SQL NULL also gives), or an
\* abort; it never yields a column's value and leaves the bind buffer as
\* fetched.
C13_OutOfRangeIsLeftToFieldData ==
    (variant = "named" /\ last.op = "get_raw_value" /\ last.count >= NumCols)
    => /\ last.val \in {Null, Abort}
       /\ last.val = Abort <=> pc = "Panicked"
       /\ output_binds = CurrentRow

C13_Witness ==
    /\ variant = "named"
    /\ pc = "RowReady"
    /\ last.op = "get_raw_value"
    /\ last.count = NumCols
    /\ last.val = Null
    /\ \E c \in DOMAIN output_binds : output_binds[c] # Null

\* invocations of f among the first i logged calls that have not returned
Outstanding(i) ==
    Cardinality({j \in 1..i : calls[j] = Call("f", "call")})
    - Cardinality({j \in 1..i : calls[j] \in {Call("f", "ok"), Call("f", "err")}})

\* C14: at most one row cursor is alive, and none survives a fetch: when
\* populate_row_buffers is called, every earlier invocation of f has
\* returned; the cursor f holds reads the row of the latest fetch only.
C14_NoCursorSurvivesAFetch ==
    /\ \A i \in DOMAIN calls :
            calls[i].op = "populate" => Outstanding(i - 1) = 0
    /\ Outstanding(Len(calls)) \in {0, 1}
    /\ Outstanding(Len(calls)) = 1 <=> pc \in {"RowReady", "Panicked"}
    /\ pc = "RowReady"
        => /\ output_binds = CurrentRow
           /\ \A k \in DOMAIN takeLog :
                k <= NumCols => takeLog[k].val = CurrentRow[k]
           /\ (last.op = "get_raw_value" /\ last.count < NumCols)
                => last.val = CurrentRow[last.count + 1]

C14_Witness ==
    /\ variant = "positional"
    /\ pc = "RowReady"
    /\ Len(fetched) = 2
    /\ Len(takeLog) = 2
    /\ takeLog[2].val = CellValue(2, 1)

\* C15: every successful advance of StatementIterator hands f a cursor with
\* col_idx = 0 and no take() behind it, wherever the previous row's cursor
\* had stopped.
C15_FreshCursorPerRow ==
    [][(variant = "positional" /\ Len(fetched') = Len(fetched) + 1)
        => /\ pc' = "RowReady"
           /\ col_idx' = 0
           /\ takeLog' = <<>>]_vars

C15_Witness ==
    /\ variant = "positional"
    /\ pc = "RowReady"
    /\ Len(fetched) = 3
    /\ col_idx = 0
    /\ last = NoLast

ReadOnlyOps == {"next_is_null", "column_count", "column_name", "index_of",
                "get_raw_value"}

\* C16: row cursors only read.  While f holds a cursor the bind buffer keeps
\* its contents and length; next_is_null, column_count, column_name,
\* index_of and get_raw_value leave col_idx alone; take() moves col_idx by
\* one and changes nothing else of the iterator.  The bind buffer changes
\* only when new has executed the statement and when next has fetched a row.
C16_CursorsOnlyRead ==
    [][/\ pc = "RowReady"
            => /\ output_binds' = output_binds
               /\ (pc' = "RowReady" /\ last'.op \in ReadOnlyOps)
                    => col_idx' = col_idx
               /\ col_idx' # col_idx
                    => /\ col_idx' = col_idx + 1
                       /\ last'.op = "take" \/ pc' = "Panicked"
                       /\ UNCHANGED <<stmtVars, calls, metadataCalls, newRet,
                                      iterVars, column_indices>>
       /\ output_binds' # output_binds
            => \/ pc = "Created" /\ calls'[Len(calls')] = Call("execute", "ok")
               \/ /\ pc = "Fetching"
                  /\ calls' = calls \o <<Call("populate", "row"), Call("f", "call")>>]_vars

C16_Witness ==
    /\ variant = "positional"
    /\ pc = "RowReady"
    /\ last.op = "next_is_null"
    /\ last.count = 2
    /\ last.flag
    /\ col_idx = 1
    /\ Len(takeLog) = 1

\* construction succeeded, so the caller can run map
MapStarted == newRet.kind = "ok"

\* map has returned: Ok at exhaustion, Err at the first failure
MapReturned ==
    \/ pc = "Exhausted" /\ ret.kind = "ok"
    \/ pc = "Errored" /\ ret.kind = "err"

\* C17: map always finishes.  With finitely many rows and an f that returns
\* from every call (no cursor call aborts), every run of map returns, having
\* reached Exhausted with an Ok result or Errored with an Err result; a run
\* that is neither fetching nor inside f has returned in one of these ways.
C17_MapAlwaysFinishes ==
    /\ [](MapStarted /\ pc \notin {"Fetching", "RowReady", "Panicked"}
            => MapReturned)
    /\ MapStarted ~> (MapReturned \/ pc = "Panicked")

C17_Witness ==
    /\ MapStarted
    /\ MapReturned
    /\ pc = "Exhausted"
    /\ Len(fetched) = MaxRows
    /\ Len(ret.val) = MaxRows

\* what map itself did: the populate calls and the calls and returns of f
MapCalls == SelectSeq(calls, LAMBDA c : c.op \in {"populate", "f"})

\* what drives a run of map: the outcomes of the populate calls, in order,
\* and the outcomes of the transform calls that have returned, in order
OutsOf(log) == [i \in DOMAIN log |-> log[i].out]
PopulateOutcomes == OutsOf(SelectSeq(calls, LAMBDA c : c.op = "populate"))
TransformOutcomes ==
    OutsOf(SelectSeq(calls, LAMBDA c : c.op = "f" /\ c.out \in {"ok", "err"}))

\* The run of one fetch-and-transform loop, written once and without regard
\* to the variant: from the populate outcomes P, the transform outcomes T
\* and the rows delivered, the calls made so far, the results collected and
\* what was returned (NoRet while the loop is running).
RECURSIVE MapReference(_, _, _, _)
MapReference(P, T, rows, acc) ==
    IF P = <<>>
    THEN [calls |-> acc.calls, results |-> acc.results, ret |-> NoRet]
    ELSE IF Head(P) = "none"
    THEN [calls |-> Append(acc.calls, Call("populate", "none")),
          results |-> acc.results, ret |-> Ok(acc.results)]
    ELSE IF Head(P) = "err"
    THEN [calls |-> Append(acc.calls, Call("populate", "err")),
          results |-> acc.results, ret |-> Err(FetchError(acc.n + 1))]
    ELSE LET entered == acc.calls \o <<Call("populate", "row"), Call("f", "call")>>
         IN  IF T = <<>>
             THEN [calls |-> entered, results |-> acc.results, ret |-> NoRet]
             ELSE IF Head(T) = "err"
             THEN [calls |-> Append(entered, Call("f", "err")),
                   results |-> acc.results,
                   ret |-> Err(TransformError(acc.n + 1))]
             ELSE MapReference(Tail(P), Tail(T), rows,
                    [calls |-> Append(entered, Call("f", "ok")),
                     results |-> Append(acc.results,
                                        f_result(acc.n + 1, rows[acc.n + 1])),
                     n |-> acc.n + 1])

Reference ==
    MapReference(PopulateOutcomes, TransformOutcomes, fetched,
                 [calls |-> <<>>, results |-> <<>>, n |-> 0])

\* C18: the positional and the named pipeline advance alike.  The calls map
\* makes on populate_row_buffers and on f, their order, the results it
\* collects and what it returns are one function of the populate outcomes
\* and the transform outcomes, and that function (Reference) is the same
\* for StatementIterator::map and NamedStatementIterator::map.
C18_SamePipelineInBothVariants ==
    /\ MapCalls = Reference.calls
    /\ ret = Reference.ret
    /\ pc \in {"Fetching", "RowReady"} => results = Reference.results
    /\ ret.kind = "ok" => ret.val = Reference.results

C18_Witness ==
    /\ variant = "named"
    /\ pc = "Errored"
    /\ PopulateOutcomes = <<"row", "row">>
    /\ TransformOutcomes = <<"ok", "err">>
    /\ ret = Err(TransformError(2))

\* C19: fetches and transform calls alternate strictly, one row at a time.
\* Every call of f directly follows the populate call that reported its
\* row; every populate call but the first directly follows the Ok return
\* of f for the row before; so no row is fetched ahead.  A run over R rows
\* without error makes R + 1 populate calls, the last reporting the end,
\* and R calls of f.
C19_FetchAndTransformAlternate ==
    /\ \A i \in DOMAIN MapCalls :
        /\ MapCalls[i] = Call("f", "call")
            => i > 1 /\ MapCalls[i - 1] = Call("populate", "row")
        /\ MapCalls[i] = Call("populate", "row")
            => i < Len(MapCalls) /\ MapCalls[i + 1] = Call("f", "call")
        /\ (MapCalls[i].op = "populate" /\ i > 1)
            => MapCalls[i - 1] = Call("f", "ok")
    /\ NumTransformCalls = Len(fetched)
    /\ NumTransformCalls = Cardinality(CallsWith("populate", "row"))
    /\ Len(fetched) - Len(results) \in {0, 1}
    /\ pc = "Exhausted"
        => /\ NumPopulateCalls = Len(fetched) + 1
           /\ LastCall = Call("populate", "none")
           /\ Cardinality(CallsWith("populate", "none")) = 1
           /\ NumTransformCalls = Len(ret.val)

C19_Witness ==
    /\ pc = "Exhausted"
    /\ Len(fetched) = 3
    /\ NumPopulateCalls = 4
    /\ NumTransformCalls = 3
    /\ OpsIn(MapCalls) = <<"populate", "f", "f", "populate", "f", "f",
                           "populate", "f", "f", "populate">>

\* C20: with at most N take() calls on a row of N >= 1 columns, the index
\* column_name reads in metadata.fields() lies in 0..N-1, whatever calls of
\* next_is_null and column_name come in between; a name it returned is the
\* name of a column.  take() has no upper bound of its own: after N calls
\* it can be called again.
C20_ColumnNameIndexInRange ==
    (variant = "positional" /\ pc = "RowReady" /\ NumCols >= 1)
        => /\ col_idx = Len(takeLog)
           /\ Len(takeLog) <= NumCols
                => column_name_idx(col_idx) \in 0..(NumCols - 1)
           /\ (last.op = "column_name" /\ Len(takeLog) <= NumCols)
                => last.val = FieldName(column_name_idx(col_idx))
           /\ col_idx = NumCols => ENABLED take

C20_Witness ==
    /\ variant = "positional"
    /\ pc = "RowReady"
    /\ NumCols = 2
    /\ Len(takeLog) = NumCols
    /\ last.op = "column_name"
    /\ last.val = FieldName(NumCols - 1)
====
